---------------------------- MODULE Spec2Model ----------------------------
(***************************************************************************)
(* Verification model of the Peloton excerpt:                              *)
(*   - the Mesos scheduler driver (package mesos): framework identity,     *)
(*     stream id, the SUBSCRIBE payload and request, the auth header;      *)
(*   - Client.ExtractHostnames (package cli);                              *)
(*   - the label Template exercised by template_test.go.                   *)
(* Go strings that the code only copies and compares are TLA+ strings.     *)
(* Go strings the code cuts, trims, orders or encodes are sequences of     *)
(* one-character strings.                                                  *)
(***************************************************************************)
EXTENDS Integers, Sequences, FiniteSets, TLC

VARIABLES
    store,           \* storage.FrameworkInfoStore row of cfg.Name
    frameworkID,     \* schedulerDriver.frameworkID (*mesos.FrameworkID)
    mesosStreamID,   \* schedulerDriver.mesosStreamID
    cfg,             \* schedulerDriver.cfg (*FrameworkConfig)
    encoding,        \* schedulerDriver.encoding
    defaultHeaders,  \* schedulerDriver.defaultHeaders (http.Header)
    subscribeIDs,    \* frameworkIDs carried by the SUBSCRIBE calls built so far
    lastPosted,      \* stream id given to the most recent PostSubscribe
    template,        \* labels.Template: the pattern's components
    mappings,        \* labels.Template: variable -> bound value
    ret              \* the last operation: its name, inputs and results

vars == <<store, frameworkID, mesosStreamID, cfg, encoding, defaultHeaders,
          subscribeIDs, lastPosted, template, mappings, ret>>

driverVars == <<store, frameworkID, mesosStreamID, cfg, encoding,
                defaultHeaders, subscribeIDs, lastPosted>>

templateVars == <<template, mappings>>

----------------------------------------------------------------------------
(* Bounds *)

MaxHeaderValues == 2
MaxHostsLen == 5
MaxSecretLen == 3
MaxPrincipalLen == 2
MaxComponents == 3

----------------------------------------------------------------------------
(* Generic helpers *)

\* All sequences over S of length 0..n.
SeqsUpTo(S, n) == UNION {[1..k -> S] : k \in 0..n}

\* All orders (sequences without repetition) of the finite set S.
Orders(S) == {p \in [1..Cardinality(S) -> S] : \A i, j \in 1..Cardinality(S) : p[i] = p[j] => i = j}

----------------------------------------------------------------------------
(* The scheduler driver *)

ServiceName == "Scheduler"
serviceSchema == "http"
servicePath == "/api/v1/scheduler"
pelotonFrameworkID == "3dcc744f-016c-6579-9b82-6325424502d2-9999"

\* *mesos.FrameworkID: nil, or a pointer to a message holding Value.
NilFrameworkID == [isNil |-> TRUE, value |-> ""]
NewFrameworkID(v) == [isNil |-> FALSE, value |-> v]

\* (*mesos.FrameworkID).GetValue: nil-safe getter.
GetValue(p) == IF p.isNil THEN "" ELSE p.value

NoRequest == [isNil |-> TRUE]
NoReturn == [op |-> "none"]

\* Values a store row can hold.
FrameworkIDValues == {"", pelotonFrameworkID, "F1"}
StreamIDValues == {"", "s1", "s2"}

\* store.GetFrameworkID(ctx, name): the stored value, or an error.
StoreGetFrameworkID(st, fails) ==
    IF fails THEN [val |-> "", err |-> TRUE]
    ELSE [val |-> st.frameworkID, err |-> FALSE]

\* store.GetMesosStreamID(ctx, name): the stored value, or an error.
StoreGetMesosStreamID(st, fails) ==
    IF fails THEN [val |-> "", err |-> TRUE]
    ELSE [val |-> st.streamID, err |-> FALSE]

\* store.SetMesosStreamID(ctx, name, id): writes the row, or fails and leaves it.
StoreSetMesosStreamID(st, id, fails) ==
    IF fails THEN [store |-> st, err |-> TRUE]
    ELSE [store |-> [st EXCEPT !.streamID = id], err |-> FALSE]

\* GetFrameworkID that caches whatever the store returned, the empty string included.
GetFrameworkIDCacheEmpty(cached, st, fails) ==
    IF ~cached.isNil THEN [ret |-> cached, frameworkID |-> cached, reads |-> 0]
    ELSE LET r == StoreGetFrameworkID(st, fails) IN
         IF r.err THEN [ret |-> NilFrameworkID, frameworkID |-> cached, reads |-> 1]
         ELSE [ret |-> NewFrameworkID(r.val), frameworkID |-> NewFrameworkID(r.val), reads |-> 1]

\* schedulerDriver.GetFrameworkID: the returned pointer, the field afterwards,
\* and the number of store reads made.
GetFrameworkID(cached, st, fails) ==
    IF ~cached.isNil THEN [ret |-> cached, frameworkID |-> cached, reads |-> 0]
    ELSE LET r == StoreGetFrameworkID(st, fails) IN
         IF r.err THEN [ret |-> NilFrameworkID, frameworkID |-> cached, reads |-> 1]
         ELSE IF r.val = "" THEN [ret |-> NilFrameworkID, frameworkID |-> cached, reads |-> 1]
         ELSE [ret |-> NewFrameworkID(r.val), frameworkID |-> NewFrameworkID(r.val), reads |-> 1]

\* schedulerDriver.GetMesosStreamID: the returned id and the field afterwards.
GetMesosStreamID(cached, st, fails) ==
    LET r == StoreGetMesosStreamID(st, fails) IN
    IF r.err THEN [ret |-> "", mesosStreamID |-> cached]
    ELSE [ret |-> r.val, mesosStreamID |-> r.val]

\* The capability list with the task-killing flag read for the GPU capability too.
CapabilitiesWrongFlag(c) ==
    (IF c.TaskKillingStateSupported THEN <<"GPU_RESOURCES">> ELSE <<>>)
    \o (IF c.TaskKillingStateSupported THEN <<"TASK_KILLING_STATE">> ELSE <<>>)
    \o (IF c.PartitionAwareSupported THEN <<"PARTITION_AWARE">> ELSE <<>>)
    \o (IF c.RevocableResourcesSupported THEN <<"REVOCABLE_RESOURCES">> ELSE <<>>)

\* prepareSubscribe, lines 172-207: the capability list, appended in order.
Capabilities(c) ==
    (IF c.GPUSupported THEN <<"GPU_RESOURCES">> ELSE <<>>)
    \o (IF c.TaskKillingStateSupported THEN <<"TASK_KILLING_STATE">> ELSE <<>>)
    \o (IF c.PartitionAwareSupported THEN <<"PARTITION_AWARE">> ELSE <<>>)
    \o (IF c.RevocableResourcesSupported THEN <<"REVOCABLE_RESOURCES">> ELSE <<>>)

\* The frameworkID choice with the fixed default preferred over the stored value.
ChooseFrameworkIDForceDefault(got) == NewFrameworkID(pelotonFrameworkID)

\* prepareSubscribe, lines 232-240: the loaded id, or the fixed default when
\* nothing was loaded (a warning is logged when the two differ).
ChooseFrameworkID(got) ==
    IF GetValue(got) = "" THEN NewFrameworkID(pelotonFrameworkID) ELSE got

\* prepareSubscribe: the SUBSCRIBE call (or the os.Hostname error), the
\* frameworkID field afterwards and the number of store reads made, given the
\* result of os.Hostname and whether the store read fails.
prepareSubscribe(c, hostname, cached, st, fails) ==
    IF hostname.err
    THEN [msg |-> NoRequest, err |-> "Failed to get host name",
          frameworkID |-> cached, reads |-> 0]
    ELSE LET got == GetFrameworkID(cached, st, fails)
             id == ChooseFrameworkID(got.ret)
             info == [User |-> c.User,
                      Name |-> c.Name,
                      FailoverTimeout |-> c.FailoverTimeout,
                      Checkpoint |-> TRUE,
                      Capabilities |-> Capabilities(c),
                      Hostname |-> hostname.val,
                      Principal |-> c.Principal,
                      Id |-> id,
                      Role |-> IF c.Role # "" THEN <<c.Role>> ELSE <<>>]
         IN [msg |-> [FrameworkId |-> id,
                      Type |-> "SUBSCRIBE",
                      Subscribe |-> [FrameworkInfo |-> info]],
             err |-> "",
             frameworkID |-> got.frameworkID, reads |-> got.reads]

\* Header keys that default headers may use, as the caller spelled them.
HeaderKeys == {"Content-Type", "content-type", "accept", "Authorization"}
HeaderValues == {"text/plain", "application/json"}

\* textproto.CanonicalMIMEHeaderKey, as http.Header.Set applies it to its key:
\* the first letter and every letter after a hyphen upper case, the rest lower.
CanonicalMIMEHeaderKey(k) ==
    CASE k = "content-type" -> "Content-Type"
      [] k = "accept" -> "Accept"
      [] OTHER -> k

\* http.Header.Set(k, v): the canonical key's values replaced by the one value.
HeaderSet(h, k, v) ==
    LET ck == CanonicalMIMEHeaderKey(k) IN
    [x \in DOMAIN h \cup {ck} |-> IF x = ck THEN <<v>> ELSE h[x]]

\* PrepareSubscribeRequest, lines 292-294: Set of each value of one key in turn.
RECURSIVE SetEach(_, _, _)
SetEach(h, k, vs) ==
    IF vs = <<>> THEN h ELSE SetEach(HeaderSet(h, k, Head(vs)), k, Tail(vs))

\* PrepareSubscribeRequest, lines 291-295: the range over d.defaultHeaders in
\* the order `keys` (Go fixes no order for a range over a map).
RECURSIVE ApplyDefaultHeaders(_, _, _)
ApplyDefaultHeaders(h, dh, keys) ==
    IF keys = <<>> THEN h
    ELSE ApplyDefaultHeaders(SetEach(h, Head(keys), dh[Head(keys)]), dh, Tail(keys))

\* The encodings of the Mesos HTTP API.
Encodings == {"json", "x-protobuf"}

\* fmt.Sprintf("application/%s", d.encoding).
ApplicationType(enc) ==
    CASE enc = "json" -> "application/json"
      [] enc = "x-protobuf" -> "application/x-protobuf"

\* The request headers without the two final Set calls.
RequestHeaderDefaultsOnly(dh, keys, enc) ==
    ApplyDefaultHeaders(<<>>, dh, keys)

\* PrepareSubscribeRequest, lines 291-298: the headers of the request.
RequestHeader(dh, keys, enc) ==
    HeaderSet(HeaderSet(ApplyDefaultHeaders(<<>>, dh, keys),
                        "Content-Type", ApplicationType(enc)),
              "Accept", ApplicationType(enc))

\* schedulerDriver.Endpoint.
Endpoint == [Scheme |-> serviceSchema, Host |-> "", Path |-> servicePath]

\* PrepareSubscribeRequest, lines 273-299: the request built once a leader is
\* known.  marshalOK and requestOK are the outcomes of mpb.MarshalPbMessage and
\* http.NewRequest; keys is the order of the range over the default headers.
SubscribeRequest(d, mesosMasterHostPort, hostname, st, fails, marshalOK, requestOK, keys) ==
    LET sub == prepareSubscribe(d.cfg, hostname, d.frameworkID, st, fails) IN
    IF sub.err # ""
    THEN [req |-> NoRequest, err |-> "Failed prepareSubscribe",
          frameworkID |-> sub.frameworkID, reads |-> sub.reads]
    ELSE IF ~marshalOK
    THEN [req |-> NoRequest, err |-> "Failed to marshal subscribe call",
          frameworkID |-> sub.frameworkID, reads |-> sub.reads]
    ELSE IF ~requestOK
    THEN [req |-> NoRequest, err |-> "Failed HTTP request",
          frameworkID |-> sub.frameworkID, reads |-> sub.reads]
    ELSE [req |-> [isNil |-> FALSE,
                   Method |-> "POST",
                   URL |-> [Endpoint EXCEPT !.Host = mesosMasterHostPort],
                   Body |-> [encoding |-> d.encoding, msg |-> sub.msg],
                   Header |-> RequestHeader(d.defaultHeaders, keys, d.encoding)],
          err |-> "",
          frameworkID |-> sub.frameworkID, reads |-> sub.reads]

\* PrepareSubscribeRequest that builds the call before it looks at the leader.
PrepareSubscribeRequestLateCheck(d, mesosMasterHostPort, hostname, st, fails, marshalOK, requestOK, keys) ==
    LET r == SubscribeRequest(d, mesosMasterHostPort, hostname, st, fails,
                              marshalOK, requestOK, keys) IN
    IF mesosMasterHostPort = ""
    THEN [r EXCEPT !.req = NoRequest, !.err = "No active leader detected"]
    ELSE r

\* schedulerDriver.PrepareSubscribeRequest: the request or the error, the
\* frameworkID field afterwards and the number of store reads made.  d is the
\* driver.
PrepareSubscribeRequest(d, mesosMasterHostPort, hostname, st, fails, marshalOK, requestOK, keys) ==
    IF mesosMasterHostPort = ""
    THEN [req |-> NoRequest, err |-> "No active leader detected",
          frameworkID |-> d.frameworkID, reads |-> 0]
    ELSE SubscribeRequest(d, mesosMasterHostPort, hostname, st, fails,
                          marshalOK, requestOK, keys)

\* schedulerDriver.PostSubscribe: the store afterwards (a failed write is
\* logged and otherwise ignored).
PostSubscribe(st, id, fails) == StoreSetMesosStreamID(st, id, fails).store

----------------------------------------------------------------------------
(* Character strings *)

\* The byte of a character (the characters the inputs are drawn from).
Ord(c) ==
    CASE c = "\n" -> 10
      [] c = " " -> 32
      [] c = "," -> 44
      [] c = ":" -> 58
      [] c = "a" -> 97
      [] c = "b" -> 98
      [] c = "c" -> 99
      [] c = "p" -> 112
      [] c = "q" -> 113
      [] c = "s" -> 115

\* unicode.IsSpace, on these characters.
IsSpace(c) == c \in {" ", "\n", "\t", "\r"}

\* s without its leading white space.
RECURSIVE TrimLeft(_)
TrimLeft(s) ==
    IF s # <<>> /\ IsSpace(Head(s)) THEN TrimLeft(Tail(s)) ELSE s

\* s without its trailing white space.
RECURSIVE TrimRight(_)
TrimRight(s) ==
    IF s # <<>> /\ IsSpace(s[Len(s)]) THEN TrimRight(SubSeq(s, 1, Len(s) - 1)) ELSE s

\* strings.TrimSpace: s without its leading and trailing white space.
TrimSpace(s) == TrimRight(TrimLeft(s))

----------------------------------------------------------------------------
(* GetAuthHeader *)

\* base64.StdEncoding's alphabet.
encodeStd ==
    <<"A", "B", "C", "D", "E", "F", "G", "H", "I", "J", "K", "L", "M",
      "N", "O", "P", "Q", "R", "S", "T", "U", "V", "W", "X", "Y", "Z",
      "a", "b", "c", "d", "e", "f", "g", "h", "i", "j", "k", "l", "m",
      "n", "o", "p", "q", "r", "s", "t", "u", "v", "w", "x", "y", "z",
      "0", "1", "2", "3", "4", "5", "6", "7", "8", "9", "+", "/">>

\* base64.StdEncoding.EncodeToString: three bytes to four characters, the last
\* group of one or two bytes padded with "=".
RECURSIVE EncodeToString(_)
EncodeToString(src) ==
    IF src = <<>> THEN <<>>
    ELSE IF Len(src) = 1 THEN
        LET v == Ord(src[1]) * 65536 IN
        <<encodeStd[(v \div 262144) + 1], encodeStd[((v \div 4096) % 64) + 1], "=", "=">>
    ELSE IF Len(src) = 2 THEN
        LET v == Ord(src[1]) * 65536 + Ord(src[2]) * 256 IN
        <<encodeStd[(v \div 262144) + 1], encodeStd[((v \div 4096) % 64) + 1],
          encodeStd[((v \div 64) % 64) + 1], "=">>
    ELSE
        LET v == Ord(src[1]) * 65536 + Ord(src[2]) * 256 + Ord(src[3]) IN
        <<encodeStd[(v \div 262144) + 1], encodeStd[((v \div 4096) % 64) + 1],
          encodeStd[((v \div 64) % 64) + 1], encodeStd[(v % 64) + 1]>>
        \o EncodeToString(SubSeq(src, 4, Len(src)))

\* http.Header.Add(k, v): v appended to the canonical key's values.
HeaderAdd(h, k, v) ==
    LET ck == CanonicalMIMEHeaderKey(k) IN
    [x \in DOMAIN h \cup {ck} |->
        IF x = ck THEN (IF ck \in DOMAIN h THEN Append(h[ck], v) ELSE <<v>>) ELSE h[x]]

\* GetAuthHeader that sends the secret file's content as it was read.
GetAuthHeaderNoTrim(username, secretPath, file) ==
    IF username = <<>> THEN [header |-> <<>>, isNil |-> FALSE, err |-> FALSE]
    ELSE IF secretPath = "" THEN [header |-> <<>>, isNil |-> FALSE, err |-> FALSE]
    ELSE IF file.err THEN [header |-> <<>>, isNil |-> TRUE, err |-> TRUE]
    ELSE [header |-> HeaderAdd(<<>>, "Authorization",
                        <<"B", "a", "s", "i", "c", " ">>
                        \o EncodeToString(username \o <<":">> \o file.buf)),
          isNil |-> FALSE, err |-> FALSE]

\* GetAuthHeader(config, secretPath): the header and the error.  username is
\* config.Framework.Principal; file is the result of ioutil.ReadFile(secretPath).
GetAuthHeader(username, secretPath, file) ==
    IF username = <<>> THEN [header |-> <<>>, isNil |-> FALSE, err |-> FALSE]
    ELSE IF secretPath = "" THEN [header |-> <<>>, isNil |-> FALSE, err |-> FALSE]
    ELSE IF file.err THEN [header |-> <<>>, isNil |-> TRUE, err |-> TRUE]
    ELSE LET password == TrimSpace(file.buf)
             auth == username \o <<":">> \o password
             basicAuth == EncodeToString(auth)
         IN [header |-> HeaderAdd(<<>>, "Authorization",
                                  <<"B", "a", "s", "i", "c", " ">> \o basicAuth),
             isNil |-> FALSE, err |-> FALSE]

----------------------------------------------------------------------------
(* Client.ExtractHostnames *)

\* strings.Index(s, sep) + 1: the first place sep occurs in s, 0 when nowhere.
Index(s, sep) ==
    LET at == {i \in 1..(Len(s) - Len(sep) + 1) : SubSeq(s, i, i + Len(sep) - 1) = sep}
    IN IF at = {} THEN 0 ELSE CHOOSE i \in at : \A j \in at : i <= j

\* strings.Split(s, sep) for a non-empty sep: cut at each sep, left to right.
RECURSIVE genSplit(_, _)
genSplit(s, sep) ==
    LET m == Index(s, sep) IN
    IF m = 0 THEN <<s>>
    ELSE <<SubSeq(s, 1, m - 1)>> \o genSplit(SubSeq(s, m + Len(sep), Len(s)), sep)

\* strings.Split(s, sep): an empty sep cuts after every character.
Split(s, sep) ==
    IF sep = <<>> THEN [i \in 1..Len(s) |-> <<s[i]>>] ELSE genSplit(s, sep)

\* a < b for Go strings: byte-wise lexicographic.
StrLess(a, b) ==
    \/ \E i \in 1..Len(a) :
          /\ i <= Len(b)
          /\ \A j \in 1..(i - 1) : a[j] = b[j]
          /\ Ord(a[i]) < Ord(b[i])
    \/ /\ Len(a) < Len(b)
       /\ \A j \in 1..Len(a) : a[j] = b[j]

\* Insertion of x into the ascending slice.
RECURSIVE Insert(_, _)
Insert(x, sorted) ==
    IF sorted = <<>> THEN <<x>>
    ELSE IF StrLess(Head(sorted), x) THEN <<Head(sorted)>> \o Insert(x, Tail(sorted))
    ELSE <<x>> \o sorted

\* sort.Strings(slice): the slice in ascending order.
RECURSIVE SortStrings(_)
SortStrings(slice) ==
    IF slice = <<>> THEN <<>> ELSE Insert(Head(slice), SortStrings(Tail(slice)))

\* stringset.ToSlice: the members in any order (a range over a map).
ToSlice(set) == Orders(set)

\* ExtractHostnames, lines 46-56: the loop over the elements from element i on;
\* the error, or the set of hosts.
RECURSIVE hostLoop(_, _, _)
hostLoop(elems, i, hostSet) ==
    IF i > Len(elems) THEN [err |-> "", hostSet |-> hostSet]
    ELSE LET host == TrimSpace(elems[i]) IN
         IF host = <<>> THEN [err |-> "Host cannot be empty", hostSet |-> {}]
         ELSE IF host \in hostSet
         THEN [err |-> "Invalid input. Duplicate entry for host", hostSet |-> {}]
         ELSE hostLoop(elems, i + 1, hostSet \cup {host})

\* ExtractHostnames that returns the hosts in the order the set gave them.
ExtractHostnamesUnsorted(hosts, hostSeparator) ==
    LET r == hostLoop(Split(hosts, hostSeparator), 1, {}) IN
    IF r.err # "" THEN {[list |-> <<>>, isNil |-> TRUE, err |-> r.err]}
    ELSE {[list |-> hostSlice, isNil |-> FALSE, err |-> ""] :
              hostSlice \in ToSlice(r.hostSet)}

\* Client.ExtractHostnames(hosts, hostSeparator): the results the call can
\* return, one for each order ToSlice can give.
ExtractHostnames(hosts, hostSeparator) ==
    LET r == hostLoop(Split(hosts, hostSeparator), 1, {}) IN
    IF r.err # "" THEN {[list |-> <<>>, isNil |-> TRUE, err |-> r.err]}
    ELSE {[list |-> SortStrings(hostSlice), isNil |-> FALSE, err |-> ""] :
              hostSlice \in ToSlice(r.hostSet)}

----------------------------------------------------------------------------
(* labels.Template *)

\* A component of a label is a sequence of tokens: a name is <<name>>, a
\* variable $name$ is <<"$", name, "$">>.
Variable(name) == <<"$", name, "$">>
IsVariable(c) == Len(c) = 3 /\ c[1] = "$" /\ c[3] = "$"

\* The variables of a pattern.
Variables(pattern) == {pattern[i][2] : i \in {j \in DOMAIN pattern : IsVariable(pattern[j])}}

\* Template.Bind(name, value): the mappings afterwards.
Bind(m, name, value) ==
    [x \in DOMAIN m \cup {name} |-> IF x = name THEN value ELSE m[x]]

\* Instantiate that replaces an unbound variable by the empty name.
InstantiateUnboundEmpty(pattern, m) ==
    [i \in DOMAIN pattern |->
        IF IsVariable(pattern[i])
        THEN (IF pattern[i][2] \in DOMAIN m THEN <<m[pattern[i][2]]>> ELSE <<"">>)
        ELSE pattern[i]]

\* Template.Instantiate(): the label with every bound variable replaced.
Instantiate(pattern, m) ==
    [i \in DOMAIN pattern |->
        IF IsVariable(pattern[i]) /\ pattern[i][2] \in DOMAIN m
        THEN <<m[pattern[i][2]]>>
        ELSE pattern[i]]

\* Template.Mappings(): every variable with its value, "" when unbound.
Mappings(pattern, m) ==
    [v \in Variables(pattern) |-> IF v \in DOMAIN m THEN m[v] ELSE ""]

\* Label.String(): the components joined by ".".
RECURSIVE String(_)
String(label) ==
    IF label = <<>> THEN <<>>
    ELSE IF Len(label) = 1 THEN label[1]
    ELSE label[1] \o <<".">> \o String(Tail(label))

----------------------------------------------------------------------------
(* Driver operations as steps *)

\* The driver object, as the methods read it.
Driver == [cfg |-> cfg, encoding |-> encoding, defaultHeaders |-> defaultHeaders,
           frameworkID |-> frameworkID, mesosStreamID |-> mesosStreamID]

\* A call of d.GetFrameworkID(ctx).
GetFrameworkIDCall ==
    \E fails \in BOOLEAN :
        LET r == GetFrameworkID(frameworkID, store, fails) IN
        /\ frameworkID' = r.frameworkID
        /\ ret' = [op |-> "GetFrameworkID", val |-> r.ret, reads |-> r.reads,
                   fails |-> fails]
        /\ UNCHANGED <<store, mesosStreamID, cfg, encoding, defaultHeaders,
                       subscribeIDs, lastPosted, templateVars>>

\* A call of d.GetMesosStreamID(ctx).
GetMesosStreamIDCall ==
    \E fails \in BOOLEAN :
        LET r == GetMesosStreamID(mesosStreamID, store, fails) IN
        /\ mesosStreamID' = r.mesosStreamID
        /\ ret' = [op |-> "GetMesosStreamID", val |-> r.ret, fails |-> fails]
        /\ UNCHANGED <<store, frameworkID, cfg, encoding, defaultHeaders,
                       subscribeIDs, lastPosted, templateVars>>

\* A call of d.PrepareSubscribeRequest(ctx, mesosMasterHostPort), by the
\* transport on the first subscription and on every reconnect.
PrepareSubscribeRequestCall ==
    \E mesosMasterHostPort \in {"", "master:5050"},
       hostname \in {[val |-> "host1", err |-> FALSE], [val |-> "", err |-> TRUE]},
       fails, marshalOK, requestOK \in BOOLEAN,
       keys \in Orders(DOMAIN defaultHeaders) :
        LET r == PrepareSubscribeRequest(Driver, mesosMasterHostPort, hostname,
                                         store, fails, marshalOK, requestOK, keys) IN
        /\ frameworkID' = r.frameworkID
        /\ subscribeIDs' = IF r.err = ""
                           THEN subscribeIDs \cup {GetValue(r.req.Body.msg.FrameworkId)}
                           ELSE subscribeIDs
        /\ ret' = [op |-> "PrepareSubscribeRequest", host |-> mesosMasterHostPort,
                   err |-> r.err, req |-> r.req, reads |-> r.reads, fails |-> fails]
        /\ UNCHANGED <<store, mesosStreamID, cfg, encoding, defaultHeaders,
                       lastPosted, templateVars>>

\* A call of d.PostSubscribe(ctx, id), by the transport once subscribed.
PostSubscribeCall ==
    \E id \in StreamIDValues \ {""}, fails \in BOOLEAN :
        /\ store' = PostSubscribe(store, id, fails)
        /\ lastPosted' = [posted |-> TRUE, id |-> id]
        /\ ret' = [op |-> "PostSubscribe", id |-> id, fails |-> fails]
        /\ UNCHANGED <<frameworkID, mesosStreamID, cfg, encoding, defaultHeaders,
                       subscribeIDs, templateVars>>

\* The rest of the system persists the frameworkID the master acknowledged:
\* one that a SUBSCRIBE call of this driver carried.
StoreFrameworkIDWritten ==
    \E id \in subscribeIDs :
        /\ store' = [store EXCEPT !.frameworkID = id]
        /\ ret' = [op |-> "SetFrameworkID", id |-> id]
        /\ UNCHANGED <<frameworkID, mesosStreamID, cfg, encoding, defaultHeaders,
                       subscribeIDs, lastPosted, templateVars>>

\* Rows the store can hold when the driver is constructed.
StoreRows == [frameworkID : FrameworkIDValues, streamID : StreamIDValues]

\* *FrameworkConfig values.
FrameworkConfigs ==
    [User : {"root"}, Name : {"peloton"}, Principal : {"peloton"},
     FailoverTimeout : {"7d"}, Role : {"", "peloton"},
     GPUSupported : BOOLEAN, TaskKillingStateSupported : BOOLEAN,
     PartitionAwareSupported : BOOLEAN, RevocableResourcesSupported : BOOLEAN]

\* http.Header values given as default headers: at most two keys, each with
\* one to MaxHeaderValues values.
DefaultHeaderChoices ==
    UNION {[ks -> SeqsUpTo(HeaderValues, MaxHeaderValues) \ {<<>>}] :
               ks \in {x \in SUBSET HeaderKeys : Cardinality(x) <= 2}}

\* No template is under construction.
NoTemplate == template = <<>> /\ mappings = <<>>

\* InitSchedulerDriver(cfg, store, defaultHeaders): a fresh driver over a store
\* that may hold a row of an earlier run.
InitSchedulerDriver(stores, cfgs, encodings, headers) ==
    /\ store \in stores
    /\ frameworkID = NilFrameworkID
    /\ mesosStreamID = ""
    /\ cfg \in cfgs
    /\ encoding \in encodings
    /\ defaultHeaders \in headers
    /\ subscribeIDs = {}
    /\ lastPosted = [posted |-> FALSE, id |-> ""]

Init ==
    /\ InitSchedulerDriver(StoreRows, {c \in FrameworkConfigs : c.GPUSupported /\ c.Role = ""
                               /\ ~c.TaskKillingStateSupported
                               /\ ~c.PartitionAwareSupported
                               /\ ~c.RevocableResourcesSupported},
                           {"json"}, {<<>>})
    /\ NoTemplate
    /\ ret = NoReturn

Next ==
    \/ GetFrameworkIDCall
    \/ GetMesosStreamIDCall
    \/ PrepareSubscribeRequestCall
    \/ PostSubscribeCall
    \/ StoreFrameworkIDWritten

Spec == Init /\ [][Next]_vars

\* Drivers of every capability configuration, subscribing.
InitCapabilities ==
    /\ InitSchedulerDriver({[frameworkID |-> "", streamID |-> ""]},
                           FrameworkConfigs, Encodings, {<<>>})
    /\ NoTemplate
    /\ ret = NoReturn

SpecCapabilities == InitCapabilities /\ [][PrepareSubscribeRequestCall]_vars

\* Drivers of every default header set, subscribing.
InitHeaders ==
    /\ InitSchedulerDriver({[frameworkID |-> "", streamID |-> ""]},
                           {c \in FrameworkConfigs : c.GPUSupported /\ c.Role # ""
                               /\ ~c.TaskKillingStateSupported
                               /\ c.PartitionAwareSupported
                               /\ ~c.RevocableResourcesSupported},
                           Encodings, DefaultHeaderChoices)
    /\ NoTemplate
    /\ ret = NoReturn

SpecHeaders == InitHeaders /\ [][PrepareSubscribeRequestCall]_vars

----------------------------------------------------------------------------
(* Claims about the driver *)

\* The last operation was a PrepareSubscribeRequest that returned a request.
Subscribed == ret.op = "PrepareSubscribeRequest" /\ ret.err = ""

\* The SUBSCRIBE call of the request last returned.
SubscribeCall == ret.req.Body.msg

\* C1 (as claimed): all SUBSCRIBE calls built by one driver carry the same
\* frameworkID, whatever the store returned between and during the calls.
C1_SameFrameworkIDOnEverySubscribe == Cardinality(subscribeIDs) <= 1

\* C2: the SUBSCRIBE call carries the fixed default when the store read failed
\* or returned the empty string, and the stored id unchanged otherwise (the id
\* cached from an earlier successful read when the store was not read); the
\* same id is the call's FrameworkId and its FrameworkInfo.Id.
C2_FrameworkIDChoice ==
    Subscribed =>
        LET id == SubscribeCall.FrameworkId IN
        /\ ~id.isNil
        /\ SubscribeCall.Subscribe.FrameworkInfo.Id = id
        /\ ret.reads = 1 /\ (ret.fails \/ store.frameworkID = "")
               => id.value = pelotonFrameworkID
        /\ ret.reads = 1 /\ ~ret.fails /\ store.frameworkID # ""
               => id.value = store.frameworkID
        /\ ret.reads = 0 => id = frameworkID /\ id.value # ""

\* C2 witness: a SUBSCRIBE call built from a stored id that is not the default.
C2_Witness ==
    /\ Subscribed
    /\ ret.reads = 1
    /\ ~ret.fails
    /\ store.frameworkID = "F1"
    /\ SubscribeCall.FrameworkId.value = "F1"
    /\ SubscribeCall.Subscribe.FrameworkInfo.Id.value = "F1"

\* C3 (as claimed): after PostSubscribe(s), GetMesosStreamID returns s, whatever
\* the outcome of the store write and of the store read.
C3_StreamIDReadBack ==
    ret.op = "GetMesosStreamID" /\ lastPosted.posted => ret.val = lastPosted.id

\* Number of times capability c is listed in caps.
Occurrences(caps, c) == Cardinality({i \in DOMAIN caps : caps[i] = c})

\* C5: each capability is listed once when its flag is set and not at all
\* otherwise, nothing else is listed, and checkpoint is true.
C5_CapabilitiesReflectFlags ==
    Subscribed =>
        LET info == SubscribeCall.Subscribe.FrameworkInfo
            caps == info.Capabilities
            one(flag) == IF flag THEN 1 ELSE 0
        IN /\ info.Checkpoint = TRUE
           /\ Occurrences(caps, "GPU_RESOURCES") = one(cfg.GPUSupported)
           /\ Occurrences(caps, "TASK_KILLING_STATE") = one(cfg.TaskKillingStateSupported)
           /\ Occurrences(caps, "PARTITION_AWARE") = one(cfg.PartitionAwareSupported)
           /\ Occurrences(caps, "REVOCABLE_RESOURCES") = one(cfg.RevocableResourcesSupported)
           /\ \A i \in DOMAIN caps :
                  caps[i] \in {"GPU_RESOURCES", "TASK_KILLING_STATE",
                               "PARTITION_AWARE", "REVOCABLE_RESOURCES"}

\* C5 witness: a SUBSCRIBE call of a driver with some flags set and some not.
C5_Witness ==
    /\ Subscribed
    /\ cfg.GPUSupported /\ ~cfg.TaskKillingStateSupported
    /\ ~cfg.PartitionAwareSupported /\ cfg.RevocableResourcesSupported
    /\ SubscribeCall.Subscribe.FrameworkInfo.Capabilities
           = <<"GPU_RESOURCES", "REVOCABLE_RESOURCES">>

\* C6: a returned request has exactly one Content-Type and one Accept value,
\* application/<encoding>, and no other spelling of either key.
C6_ContentTypeAndAccept ==
    Subscribed =>
        LET h == ret.req.Header
            want == IF encoding = "json" THEN "application/json"
                    ELSE "application/x-protobuf"
        IN /\ {"Content-Type", "Accept"} \subseteq DOMAIN h
           /\ h["Content-Type"] = <<want>>
           /\ h["Accept"] = <<want>>
           /\ DOMAIN h \cap {"content-type", "accept"} = {}

\* C6 witness: a request of a driver whose default headers name Content-Type in
\* lower case with several values, and Accept.
C6_Witness ==
    /\ Subscribed
    /\ {"content-type", "accept"} \subseteq DOMAIN defaultHeaders
    /\ Len(defaultHeaders["content-type"]) > 1
    /\ defaultHeaders["content-type"][1] = "text/plain"

\* C9: GetFrameworkID reads the store exactly when nothing is cached; it then
\* returns nil and caches nothing when the read fails or returns the empty
\* string, and returns and caches the value read otherwise.  With an id cached
\* it returns that id without a read, and no operation changes a cached id.
C9_CacheOnlySuccessfulRead ==
    [][/\ ~frameworkID.isNil => frameworkID' = frameworkID
       /\ ret'.op = "GetFrameworkID" =>
            /\ frameworkID.isNil =>
                 /\ ret'.reads = 1
                 /\ ret'.fails \/ store.frameworkID = ""
                        => ret'.val.isNil /\ frameworkID'.isNil
                 /\ ~ret'.fails /\ store.frameworkID # ""
                        => /\ ret'.val = NewFrameworkID(store.frameworkID)
                           /\ frameworkID' = ret'.val
            /\ ~frameworkID.isNil =>
                 /\ ret'.reads = 0
                 /\ ret'.val = frameworkID]_vars

\* C9 witness: GetFrameworkID answered from the cache while the store holds
\* another id.
C9_Witness ==
    /\ ret.op = "GetFrameworkID"
    /\ ret.reads = 0
    /\ ~ret.val.isNil
    /\ store.frameworkID # ret.val.value

\* C10: PrepareSubscribeRequest with an empty master host:port returns an
\* error and no request, reads nothing from the store, and leaves the store,
\* the cached frameworkID and the cached stream id as they were.
C10_NoLeaderNoEffect ==
    [][ret'.op = "PrepareSubscribeRequest" /\ ret'.host = "" =>
          /\ ret'.err # ""
          /\ ret'.req = NoRequest
          /\ ret'.reads = 0
          /\ UNCHANGED <<store, frameworkID, mesosStreamID, subscribeIDs>>]_vars

\* C10 witness: the call with no leader made by a driver with nothing cached,
\* over a store that holds a frameworkID.
C10_Witness ==
    /\ ret.op = "PrepareSubscribeRequest"
    /\ ret.host = ""
    /\ frameworkID.isNil
    /\ store.frameworkID = "F1"



----------------------------------------------------------------------------
(* The pure functions as steps *)

\* A driver that takes no part: the package functions and the template do not
\* touch it.
IdleDriver ==
    InitSchedulerDriver({[frameworkID |-> "", streamID |-> ""]},
                        {c \in FrameworkConfigs : c.Role = ""
                            /\ ~c.GPUSupported
                            /\ ~c.TaskKillingStateSupported
                            /\ ~c.PartitionAwareSupported
                            /\ ~c.RevocableResourcesSupported},
                        {"json"}, {<<>>})

\* Principals, secret paths and secret file contents.
Principals == SeqsUpTo({"p", "q"}, MaxPrincipalLen)
SecretPaths == {"", "/etc/mesos/secret"}
SecretFiles ==
    {[buf |-> <<>>, err |-> TRUE]}
    \cup {[buf |-> b, err |-> FALSE] : b \in SeqsUpTo({"s", " ", "\n"}, MaxSecretLen)}

\* The call GetAuthHeader(config, secretPath) about to be made returns.
GetAuthHeaderCall ==
    /\ ret.op = "call GetAuthHeader"
    /\ LET r == GetAuthHeader(ret.username, ret.secretPath, ret.file) IN
       ret' = [op |-> "GetAuthHeader", username |-> ret.username,
               secretPath |-> ret.secretPath, file |-> ret.file,
               header |-> r.header, isNil |-> r.isNil, err |-> r.err]
    /\ UNCHANGED <<driverVars, templateVars>>

InitAuth ==
    /\ IdleDriver
    /\ NoTemplate
    /\ \E username \in Principals, secretPath \in SecretPaths, file \in SecretFiles :
           ret = [op |-> "call GetAuthHeader", username |-> username,
                  secretPath |-> secretPath, file |-> file]

SpecAuth == InitAuth /\ [][GetAuthHeaderCall]_vars

\* Host lists and separators.
HostLists == SeqsUpTo({"a", "b", "c", " ", ","}, MaxHostsLen)
HostSeparators == {<<",">>, <<",", " ">>, <<>>}

\* The call c.ExtractHostnames(hosts, hostSeparator) about to be made returns.
ExtractHostnamesCall ==
    /\ ret.op = "call ExtractHostnames"
    /\ \E r \in ExtractHostnames(ret.hosts, ret.hostSeparator) :
           ret' = [op |-> "ExtractHostnames", hosts |-> ret.hosts,
                   hostSeparator |-> ret.hostSeparator,
                   list |-> r.list, isNil |-> r.isNil, err |-> r.err]
    /\ UNCHANGED <<driverVars, templateVars>>

InitHosts ==
    /\ IdleDriver
    /\ NoTemplate
    /\ \E hosts \in HostLists, hostSeparator \in HostSeparators :
           ret = [op |-> "call ExtractHostnames", hosts |-> hosts,
                  hostSeparator |-> hostSeparator]

SpecHosts == InitHosts /\ [][ExtractHostnamesCall]_vars

\* Components, variable names and values of the templates.
Components == {<<"foo">>, Variable("bar"), Variable("baz")}
Names == {"bar", "baz", "qux"}
Values == {"", "bar", "baz"}

\* NewTemplate(names...): a template with nothing bound.
NewTemplateCall ==
    \E pattern \in SeqsUpTo(Components, MaxComponents) \ {<<>>} :
        /\ template = <<>>
        /\ template' = pattern
        /\ mappings' = <<>>
        /\ ret' = [op |-> "NewTemplate"]
        /\ UNCHANGED driverVars

\* template.Bind(name, value).
BindCall ==
    \E name \in Names, value \in Values :
        /\ template # <<>>
        /\ mappings' = Bind(mappings, name, value)
        /\ ret' = [op |-> "Bind", name |-> name, value |-> value]
        /\ UNCHANGED <<driverVars, template>>

\* template.Instantiate().
InstantiateCall ==
    /\ template # <<>>
    /\ ret' = [op |-> "Instantiate", label |-> Instantiate(template, mappings),
               string |-> String(Instantiate(template, mappings))]
    /\ UNCHANGED <<driverVars, templateVars>>

\* template.Mappings().
MappingsCall ==
    /\ template # <<>>
    /\ ret' = [op |-> "Mappings", map |-> Mappings(template, mappings)]
    /\ UNCHANGED <<driverVars, templateVars>>

InitTemplate == IdleDriver /\ NoTemplate /\ ret = NoReturn

NextTemplate ==
    \/ NewTemplateCall
    \/ BindCall
    \/ InstantiateCall
    \/ MappingsCall

SpecTemplate == InitTemplate /\ [][NextTemplate]_vars

----------------------------------------------------------------------------
(* Claims about the pure functions *)

\* t is s without its leading and trailing white space.
IsTrimOf(t, s) ==
    /\ (t # <<>> => ~IsSpace(t[1]) /\ ~IsSpace(t[Len(t)]))
    /\ \E i \in 1..(Len(s) + 1) :
          /\ i + Len(t) - 1 <= Len(s)
          /\ t = SubSeq(s, i, i + Len(t) - 1)
          /\ \A k \in (1..(i - 1)) \cup ((i + Len(t))..Len(s)) : IsSpace(s[k])

\* The place of character c in the base64 alphabet, less one.
Sextet(c) == (CHOOSE i \in 1..64 : encodeStd[i] = c) - 1

\* The bytes a padded base64 text stands for.
RECURSIVE DecodedBytes(_)
DecodedBytes(text) ==
    IF text = <<>> THEN <<>>
    ELSE LET v == Sextet(text[1]) * 262144 + Sextet(text[2]) * 4096
                  + (IF text[3] = "=" THEN 0 ELSE Sextet(text[3]) * 64)
                  + (IF text[4] = "=" THEN 0 ELSE Sextet(text[4]))
         IN <<v \div 65536>>
            \o (IF text[3] = "=" THEN <<>> ELSE <<(v \div 256) % 256>>)
            \o (IF text[4] = "=" THEN <<>> ELSE <<v % 256>>)
            \o DecodedBytes(SubSeq(text, 5, Len(text)))

\* The bytes of a character string.
Bytes(str) == [i \in DOMAIN str |-> Ord(str[i])]

\* The header carries one Authorization value, Basic base64(principal:secret),
\* the secret being the file's content without surrounding white space.
HasBasicAuth(header, username, buf) ==
    /\ DOMAIN header = {"Authorization"}
    /\ Len(header["Authorization"]) = 1
    /\ LET v == header["Authorization"][1] IN
       /\ Len(v) >= 6
       /\ SubSeq(v, 1, 6) = <<"B", "a", "s", "i", "c", " ">>
       /\ (Len(v) - 6) % 4 = 0
       /\ \E n \in 0..Len(buf) : \E secret \in [1..n -> {buf[k] : k \in DOMAIN buf}] :
             /\ IsTrimOf(secret, buf)
             /\ DecodedBytes(SubSeq(v, 7, Len(v))) = Bytes(username \o <<":">> \o secret)

\* C4 (as claimed): with a secret file configured and readable the header has
\* the Basic Authorization entry, for every principal; with no secret file it
\* has none.
C4_AuthHeaderForEveryPrincipal ==
    ret.op = "GetAuthHeader" =>
        /\ ret.secretPath # "" /\ ~ret.file.err
               => ~ret.err /\ HasBasicAuth(ret.header, ret.username, ret.file.buf)
        /\ ret.secretPath = ""
               => ~ret.err /\ ~ret.isNil /\ "Authorization" \notin DOMAIN ret.header

\* C4 (amended): with a secret file configured and readable and a non-empty
\* principal the header has the Basic Authorization entry; with no secret file
\* or an empty principal it has none.
C4_AuthHeaderForNonEmptyPrincipal ==
    ret.op = "GetAuthHeader" =>
        /\ ret.username # <<>> /\ ret.secretPath # "" /\ ~ret.file.err
               => ~ret.err /\ HasBasicAuth(ret.header, ret.username, ret.file.buf)
        /\ ret.username = <<>> \/ ret.secretPath = ""
               => ~ret.err /\ ~ret.isNil /\ "Authorization" \notin DOMAIN ret.header

\* C4 witness: a header built from a principal and a secret file whose content
\* has white space around the secret.
C4_Witness ==
    /\ ret.op = "GetAuthHeader"
    /\ ret.username = <<"p", "q">>
    /\ ret.secretPath # ""
    /\ ~ret.file.err
    /\ ret.file.buf = <<" ", "s", "\n">>
    /\ "Authorization" \in DOMAIN ret.header

\* The elements of the last ExtractHostnames call, trimmed.
TrimmedElements ==
    LET elems == Split(ret.hosts, ret.hostSeparator) IN
    [i \in DOMAIN elems |-> TrimSpace(elems[i])]

\* C7: ExtractHostnames fails, with no list, iff some trimmed element is empty
\* or repeats an earlier one; otherwise it returns the trimmed elements, each
\* once, in ascending order.
C7_ExtractHostnames ==
    ret.op = "ExtractHostnames" =>
        LET elems == Split(ret.hosts, ret.hostSeparator)
            t == TrimmedElements
            bad == \E i \in DOMAIN t :
                       t[i] = <<>> \/ \E j \in 1..(i - 1) : t[j] = t[i]
        IN /\ \A i \in DOMAIN t : IsTrimOf(t[i], elems[i])
           /\ (ret.err # "") <=> bad
           /\ ret.err # "" => ret.isNil
           /\ ret.err = "" =>
                /\ ~ret.isNil
                /\ Len(ret.list) = Len(t)
                /\ {ret.list[i] : i \in DOMAIN ret.list} = {t[i] : i \in DOMAIN t}
                /\ \A i, j \in DOMAIN ret.list : i < j => StrLess(ret.list[i], ret.list[j])

\* C7 witness: hosts given in descending order with white space around them.
C7_Witness ==
    /\ ret.op = "ExtractHostnames"
    /\ ret.hosts = <<"c", ",", " ", "a", "b">>
    /\ ret.hostSeparator = <<",">>
    /\ ret.list = << <<"a", "b">>, <<"c">> >>

\* C8: Instantiate keeps the components of the template in order, with each
\* variable replaced by the value last bound to it and left as $name$ while
\* unbound; Mappings gives every variable of the template its bound value, or
\* "" when unbound; Bind binds the one name and no other.
C8_TemplateInstantiate ==
    /\ [](ret.op = "Instantiate" =>
            /\ Len(ret.label) = Len(template)
            /\ \A i \in DOMAIN template :
                  LET c == template[i] IN
                  IF Len(c) = 3 /\ c[1] = "$" /\ c[3] = "$"
                  THEN IF c[2] \in DOMAIN mappings
                       THEN ret.label[i] = <<mappings[c[2]]>>
                       ELSE ret.label[i] = c
                  ELSE ret.label[i] = c)
    /\ [](ret.op = "Mappings" =>
            /\ \A i \in DOMAIN template :
                  Len(template[i]) = 3 /\ template[i][1] = "$" /\ template[i][3] = "$"
                      => template[i][2] \in DOMAIN ret.map
            /\ \A v \in DOMAIN ret.map :
                  ret.map[v] = IF v \in DOMAIN mappings THEN mappings[v] ELSE "")
    /\ [][ret'.op = "Bind" =>
            /\ DOMAIN mappings' = DOMAIN mappings \cup {ret'.name}
            /\ mappings'[ret'.name] = ret'.value
            /\ \A v \in DOMAIN mappings : v # ret'.name => mappings'[v] = mappings[v]]_vars

\* C8 witness: the second step of TestTemplate, foo.$bar$.$baz$ with bar bound.
C8_Witness ==
    /\ ret.op = "Instantiate"
    /\ template = <<<<"foo">>, Variable("bar"), Variable("baz")>>
    /\ DOMAIN mappings = {"bar"}
    /\ mappings["bar"] = "bar"
    /\ ret.string = <<"foo", ".", "bar", ".", "$", "baz", "$">>

=============================================================================
